---- MODULE Spec2Model ----
(***************************************************************************)
(* Model of student_report_app (src/main.rs): an interactive console       *)
(* program that reads a student's name, total marks and subject count,     *)
(* then prints a report card with the average and a letter grade.          *)
(*                                                                         *)
(* Text is modelled by TLA+ strings (a character is a string of length 1). *)
(* A u32 is modelled by a pair <<hi, lo>> of 16-bit limbs, value           *)
(* hi * 2^16 + lo, because the model checker's integers are narrower than  *)
(* the products the program's arithmetic needs.  An f64 is modelled by     *)
(* its exact value: a significand of F64Bits bits and the position of the  *)
(* binary point.                                                           *)
(***************************************************************************)
EXTENDS Integers, Sequences, FiniteSets, TLC

VARIABLES
    pc,            \* where main() is: "start", a blocked prompt, "report", "done", "aborted"
    out,           \* what has been written to the console, as a sequence of events
    last,          \* the result of the most recent console read
    name,          \* main's local `name`        (None until get_string_input returns)
    total_marks,   \* main's local `total_marks` (None until get_u32_input returns)
    num_subjects,  \* main's local `num_subjects`
    student,       \* the Student value          (None until Student::new)
    report,        \* the report card as printed (None until print_report_card)
    exit_status,   \* the process exit status    (None while running)
    rejects,       \* history: consecutive reads at the current prompt that gave no valid input
    firstValid     \* history: per prompt, the first valid line the console delivered there

vars == <<pc, out, last, name, total_marks, num_subjects, student, report,
          exit_status, rejects, firstValid>>

\* Option: a local that is not yet assigned holds None, an assigned one Some(v)
None == <<>>

Some(v) == <<v>>

Val(x) == x[1]

\* `let x = v` followed by F(x): v is computed once, before F
Let(v, F(_)) == CHOOSE y \in {F(x) : x \in {v}} : TRUE

(***************************************************************************)
(* Bounds of the model.                                                    *)
(***************************************************************************)
\* how many reads in a row the console may answer a prompt without valid input
MaxAttempts == 2
\* the largest subject count of the exhaustive grade check
MaxSubjects == 3

(***************************************************************************)
(* Characters and text.                                                    *)
(***************************************************************************)
DigitChars == <<"0", "1", "2", "3", "4", "5", "6", "7", "8", "9">>

IsDigit(c) == \E i \in 1..Len(DigitChars) : DigitChars[i] = c

DigitVal(c) == (CHOOSE i \in 1..Len(DigitChars) : DigitChars[i] = c) - 1

\* char::is_whitespace on the characters the console lines of the model hold
IsWhite(c) == c \in {" ", "\t", "\n", "\r"}

CharAt(s, i) == SubSeq(s, i, i)

\* str::trim_start, from character i on
RECURSIVE TrimStart(_, _)
TrimStart(s, i) ==
    IF i <= Len(s) /\ IsWhite(CharAt(s, i)) THEN TrimStart(s, i + 1)
    ELSE SubSeq(s, i, Len(s))

\* str::trim_end, back from character i
RECURSIVE TrimEnd(_, _)
TrimEnd(s, i) ==
    IF i >= 1 /\ IsWhite(CharAt(s, i)) THEN TrimEnd(s, i - 1)
    ELSE SubSeq(s, 1, i)

\* str::trim
Trim(s) == Let(TrimStart(s, 1), LAMBDA x : TrimEnd(x, Len(x)))

(***************************************************************************)
(* u32 arithmetic on 16-bit limbs.                                         *)
(***************************************************************************)
Limb == 2^16

U32Zero == <<0, 0>>

U32Max == <<Limb - 1, Limb - 1>>

\* x * k + d for a small k and d; the high limb is left unreduced so that the
\* caller sees the overflow
MulAdd(x, k, d) ==
    LET l == x[2] * k + d
    IN  <<x[1] * k + l \div Limb, l % Limb>>

Geq(a, b) == a[1] > b[1] \/ (a[1] = b[1] /\ a[2] >= b[2])

Sub(a, b) ==
    IF a[2] >= b[2] THEN <<a[1] - b[1], a[2] - b[2]>>
    ELSE <<a[1] - b[1] - 1, a[2] + Limb - b[2]>>

Ok(v) == [ok |-> TRUE, val |-> v]

Err == [ok |-> FALSE]

\* the digit loop of u32::from_str from character i on: checked_mul(10) then
\* checked_add(digit), InvalidDigit on a non-digit, PosOverflow above u32::MAX
RECURSIVE ParseDigits(_, _, _)
ParseDigits(s, i, acc) ==
    IF i > Len(s) THEN Ok(acc)
    ELSE IF ~IsDigit(CharAt(s, i)) THEN Err
    ELSE Let(MulAdd(acc, 10, DigitVal(CharAt(s, i))),
             LAMBDA nxt : IF nxt[1] >= Limb THEN Err ELSE ParseDigits(s, i + 1, nxt))

\* str::parse::<u32>: Empty on "", a single leading "+" is skipped (unsigned
\* types take no "-"), a lone sign is InvalidDigit
parse_u32(s) ==
    IF Len(s) = 0 THEN Err
    ELSE IF Len(s) = 1 /\ s \in {"+", "-"} THEN Err
    ELSE IF CharAt(s, 1) = "+" THEN ParseDigits(s, 2, U32Zero)
    ELSE ParseDigits(s, 1, U32Zero)

\* x \div 10 and x % 10 on limbs
DivMod10(x) ==
    LET qh == x[1] \div 10
        m  == (x[1] % 10) * Limb + x[2]
    IN  [q |-> <<qh + (m \div 10) \div Limb, (m \div 10) % Limb>>, r |-> m % 10]

\* Display for u32: the decimal digits, no sign, no leading zeros
RECURSIVE U32ToString(_)
U32ToString(x) ==
    Let(DivMod10(x),
        LAMBDA d : IF d.q = U32Zero THEN DigitChars[d.r + 1]
                   ELSE U32ToString(d.q) \o DigitChars[d.r + 1])

(***************************************************************************)
(* f64 arithmetic.  A float is zero or [m, pt]: m the significand, a       *)
(* sequence of bits with m[1] = 1, most significant first, and pt the      *)
(* number of those bits before the binary point (pt <= 0: the value is     *)
(* below 1, pt > Len(m): the value is an integer with trailing zero bits). *)
(***************************************************************************)
\* the significand of an f64 holds 53 bits
F64Bits == 53

FZero == [zero |-> TRUE]

Zeros(n) == [i \in 1..n |-> 0]

\* hexadecimal digit k of a u32, most significant first, k in 1..8
U32Nibble(x, k) ==
    IF k <= 4 THEN (x[1] \div 16^(4 - k)) % 16
    ELSE (x[2] \div 16^(8 - k)) % 16

\* how many hexadecimal digits of t / s a significand of P bits needs: 8 before
\* the point, and after it up to 32 leading zero bits, P bits and a guard bit
QuotNibbles(P) == (32 + 32 + P + 1 + 3) \div 4

\* the hexadecimal digit R \div s, for R < 16 * s: by one division when s is
\* a single limb (R is then below 2^20), by search otherwise
QuotDigit(R, s) ==
    IF s[1] = 0 THEN (R[1] * Limb + R[2]) \div s[2]
    ELSE CHOOSE x \in 0..15 :
             Geq(R, MulAdd(s, x, 0)) /\ ~Geq(R, MulAdd(s, x + 1, 0))

\* one step of the long division of st.t by st.s: digit k of the quotient, from
\* the remainder st.r, appended to st.q
DivStep(k, st) ==
    Let(MulAdd(st.r, 16, IF k <= 8 THEN U32Nibble(st.t, k) ELSE 0),
        LAMBDA R :
            Let(QuotDigit(R, st.s),
                LAMBDA d : [st EXCEPT !.r = Sub(R, MulAdd(st.s, d, 0)),
                                      !.q = Append(st.q, d)]))

\* long division of st.t by st.s, one hexadecimal digit a step: the first n
\* digits of the quotient (8 of them before the point) in q and the remainder
\* left in r.  k is the digit being produced.
RECURSIVE DivNibbles(_, _, _)
DivNibbles(n, k, st) ==
    IF k > n THEN st
    ELSE Let(DivStep(k, st), LAMBDA nxt : DivNibbles(n, k + 1, nxt))

\* bit j of a sequence of hexadecimal digits, most significant first
NibbleBit(q, j) == (q[(j - 1) \div 4 + 1] \div 2^(3 - ((j - 1) % 4))) % 2

\* the position of the first 1 bit of a sequence of hexadecimal digits
FirstBit(q) ==
    Let(CHOOSE i \in 1..Len(q) : q[i] # 0 /\ \A j \in 1..(i - 1) : q[j] = 0,
        LAMBDA k : 4 * (k - 1) + (IF q[k] >= 8 THEN 1 ELSE IF q[k] >= 4 THEN 2
                                  ELSE IF q[k] >= 2 THEN 3 ELSE 4))

\* m + 1 on a bit sequence; <<>> when every bit was 1
IncBits(m) ==
    IF \A i \in 1..Len(m) : m[i] = 1 THEN <<>>
    ELSE Let(CHOOSE i \in 1..Len(m) : m[i] = 0 /\ \A j \in (i + 1)..Len(m) : m[j] = 1,
             LAMBDA z : [i \in 1..Len(m) |-> IF i < z THEN m[i]
                                              ELSE IF i = z THEN 1 ELSE 0])

\* the significand m of a quotient d whose first 1 bit is at position first,
\* rounded by the bits of d that follow it
RoundBits(d, first, m) ==
    LET P      == Len(m)
        guard  == NibbleBit(d.q, first + P)
        sticky == \/ d.r # U32Zero
                  \/ \E j \in (first + P + 1)..(4 * Len(d.q)) : NibbleBit(d.q, j) = 1
        up     == guard = 1 /\ (sticky \/ m[P] = 1)
        pt     == 33 - first
    IN  IF ~up THEN [zero |-> FALSE, m |-> m, pt |-> pt]
        ELSE Let(IncBits(m),
                 LAMBDA inc :
                     IF inc = <<>>
                     THEN [zero |-> FALSE, m |-> <<1>> \o Zeros(P - 1), pt |-> pt + 1]
                     ELSE [zero |-> FALSE, m |-> inc, pt |-> pt])

\* t / s rounded to a significand of P bits, to nearest, ties to even (IEEE 754
\* division of two integers that the format holds exactly); s # 0
FDiv(t, s, P) ==
    IF t = U32Zero THEN FZero
    ELSE Let(DivNibbles(QuotNibbles(P), 1, [t |-> t, s |-> s, r |-> U32Zero, q |-> <<>>]),
             LAMBDA d :
                 Let(FirstBit(d.q),
                     LAMBDA first :
                         Let([i \in 1..P |-> NibbleBit(d.q, first + i - 1)],
                             LAMBDA m : RoundBits(d, first, m))))

\* the bits of f before the binary point
IntBits(f) ==
    IF f.zero \/ f.pt <= 0 THEN <<>>
    ELSE IF f.pt <= Len(f.m) THEN SubSeq(f.m, 1, f.pt)
    ELSE f.m \o Zeros(f.pt - Len(f.m))

\* the bits of f after the binary point
FracBits(f) ==
    IF f.zero \/ f.pt >= Len(f.m) THEN <<>>
    ELSE IF f.pt >= 0 THEN SubSeq(f.m, f.pt + 1, Len(f.m))
    ELSE Zeros(-f.pt) \o f.m

\* bit j of a bit sequence, 0 outside it
Bit(bits, j) == IF j >= 1 /\ j <= Len(bits) THEN bits[j] ELSE 0

\* the number that the 8 bits from position a on denote
Byte(bits, a) ==
    128 * Bit(bits, a) + 64 * Bit(bits, a + 1) + 32 * Bit(bits, a + 2)
    + 16 * Bit(bits, a + 3) + 8 * Bit(bits, a + 4) + 4 * Bit(bits, a + 5)
    + 2 * Bit(bits, a + 6) + Bit(bits, a + 7)

\* the integer part of f, on limbs (f is below 2^33)
Floor(f) ==
    Let(IntBits(f),
        LAMBDA ib :
            << 2^16 * Bit(ib, Len(ib) - 32) + 256 * Byte(ib, Len(ib) - 31)
                                            + Byte(ib, Len(ib) - 23),
               256 * Byte(ib, Len(ib) - 15) + Byte(ib, Len(ib) - 7) >>)

\* f >= n for an integer n in 1..2^16 - 1: decided by the integer part of f
FGeq(f, n) == Geq(Floor(f), <<0, n>>)

\* the bytes of a binary fraction 0.bits
FracBytes(bits) == [i \in 1..((Len(bits) + 7) \div 8) |-> Byte(bits, 8 * i - 7)]

\* (0.bytes) * k for a small k, from byte i down: the integer part and the
\* fraction left
RECURSIVE MulFrac(_, _, _, _, _)
MulFrac(bytes, i, k, carry, acc) ==
    IF i = 0 THEN [int |-> carry, frac |-> acc]
    ELSE Let(bytes[i] * k + carry,
             LAMBDA v : Let(<<v % 256>> \o acc,
                            LAMBDA a : MulFrac(bytes, i - 1, k, v \div 256, a)))

\* the hundredths h (and the fraction left of them) of a float whose integer
\* part is ip, rounded to nearest, ties to even, and written out
RoundHundredths(ip, h) ==
    LET half == h.frac # <<>> /\ h.frac[1] >= 128
        more == h.frac # <<>> /\ (h.frac[1] % 128 # 0 \/ \E j \in 2..Len(h.frac) : h.frac[j] # 0)
        up   == half /\ (more \/ h.int % 2 = 1)
    IN  Let(IF up THEN h.int + 1 ELSE h.int,
            LAMBDA c : U32ToString(MulAdd(ip, 1, c \div 100))
                           \o "." \o DigitChars[(c % 100) \div 10 + 1]
                           \o DigitChars[(c % 10) + 1])

\* format!("{:.2}", f): the exact value of f in decimal, rounded to two
\* places, to nearest, ties to even
FormatFixed2(f) ==
    Let(FracBits(f),
        LAMBDA b :
            Let(FracBytes(b),
                LAMBDA fb :
                    Let(MulFrac(fb, Len(fb), 100, 0, <<>>),
                        LAMBDA h : Let(Floor(f), LAMBDA ip : RoundHundredths(ip, h)))))

(***************************************************************************)
(* Student and Grade.                                                      *)
(***************************************************************************)
Grades == {"A", "B", "C", "D", "Invalid"}

\* Grade::as_str
as_str(g) ==
    CASE g = "A" -> "A"
      [] g = "B" -> "B"
      [] g = "C" -> "C"
      [] g = "D" -> "D"
      [] g = "Invalid" -> "N/A"

\* Student::new
Student_new(n, t, s) == [name |-> n, total_marks |-> t, num_subjects |-> s]

\* an average computed in single precision: what the division would give were
\* the quotient rounded to 24 bits
F32DivLossy(t, s) == FDiv(t, s, 24)

\* `self.total_marks as f64 / self.num_subjects as f64`: both casts are exact
F64Div(t, s) == FDiv(t, s, F64Bits)

\* Student::calculate_average
calculate_average(st) ==
    IF st.num_subjects = U32Zero THEN FZero
    ELSE F64Div(st.total_marks, st.num_subjects)

\* assign_grade without its zero-subjects test
assign_grade_unguarded(st) ==
    Let(calculate_average(st),
        LAMBDA average :
            IF FGeq(average, 90) THEN "A"
            ELSE IF FGeq(average, 75) THEN "B"
            ELSE IF FGeq(average, 60) THEN "C"
            ELSE "D")

\* Student::assign_grade
assign_grade(st) ==
    Let(calculate_average(st),
        LAMBDA average :
            IF st.num_subjects = U32Zero THEN "Invalid"
            ELSE IF FGeq(average, 90) THEN "A"
            ELSE IF FGeq(average, 75) THEN "B"
            ELSE IF FGeq(average, 60) THEN "C"
            ELSE "D")

\* a report card that prints the two numbers in each other's place
print_report_card_swapped(st) ==
    Let(calculate_average(st),
        LAMBDA average :
            Let(assign_grade(st),
                LAMBDA grade :
                    [name     |-> st.name,
                     total    |-> U32ToString(st.num_subjects),
                     subjects |-> U32ToString(st.total_marks),
                     average  |-> FormatFixed2(average),
                     grade    |-> as_str(grade)]))

\* Student::print_report_card: the values of the five labelled lines
print_report_card(st) ==
    Let(calculate_average(st),
        LAMBDA average :
            Let(assign_grade(st),
                LAMBDA grade :
                    [name     |-> st.name,
                     total    |-> U32ToString(st.total_marks),
                     subjects |-> U32ToString(st.num_subjects),
                     average  |-> FormatFixed2(average),
                     grade    |-> as_str(grade)]))

(***************************************************************************)
(* The console.  A read of standard input gives a line (with its           *)
(* terminator, if it has one), end of input, or an I/O error.              *)
(***************************************************************************)
Line(raw) == [kind |-> "line", raw |-> raw]

Eof == [kind |-> "eof", raw |-> ""]

IoError == [kind |-> "err", raw |-> ""]

NoRead == [kind |-> "none", raw |-> ""]

\* the lines the console delivers at the name prompt
NameLines == {"Ada\n", "  Bo Li \t\n", "\n", "   \n", " \t\r\n"}

\* the lines the console delivers at the two integer prompts
NumberLines ==
    {"0\n", "3\n", "270\n", "179\n", "4294967295\n", "+5\n", " 007 \n",
     "\n", "-5\n", "3.14\n", "12a\n", "4294967296\n", "+\n", "1 2\n", "+-5\n"}

NameReads == {Line(l) : l \in NameLines} \cup {Eof, IoError}

NumberReads == {Line(l) : l \in NumberLines} \cup {Eof, IoError}

\* what the program writes
Welcome == "Welcome to the Student Report Card Generator!"
NamePrompt == "Enter student's name: "
MarksPrompt == "Enter total marks: "
SubjectsPrompt == "Enter number of subjects: "
EmptyDiag == "Input cannot be empty. Please try again."
InvalidDiag == "Invalid input. Please enter a valid number."
ReportBlock == "--- Student Report Card ---"
ThankYou == "Thank you for using the Student Report Card Generator!"
PanicMessage == "Failed to read line"

\* the exit status of a Rust process whose main thread panicked
ExitPanic == 101
\* the exit status when main returns
ExitSuccess == 0

\* read_line: stdin().read_line gives Ok(0) and no text at end of input, an
\* error is propagated by `?`, the text read is trimmed
read_line(r) ==
    IF r.kind = "err" THEN Err
    ELSE Ok(Trim(r.raw))

Return(v) == [kind |-> "return", val |-> v]

Retry == [kind |-> "retry", val |-> None]

Panic == [kind |-> "panic", val |-> None]

\* a string prompt that unwraps the read, as the integer prompt does
get_string_input_unwrap(r) ==
    Let(read_line(r),
        LAMBDA res : IF ~res.ok THEN Panic
                     ELSE IF res.val # "" THEN Return(res.val)
                     ELSE Retry)

\* a string prompt that returns the line as read, untrimmed
get_string_input_raw(r) ==
    Let(read_line(r),
        LAMBDA res : IF res.ok /\ res.val # "" THEN Return(r.raw) ELSE Retry)

\* one pass of the loop of get_string_input on the read result r
get_string_input(r) ==
    Let(read_line(r),
        LAMBDA res : IF res.ok /\ res.val # "" THEN Return(res.val) ELSE Retry)

\* an integer prompt that takes nothing but digits
get_u32_input_digits(r) ==
    Let(read_line(r),
        LAMBDA input :
            IF ~input.ok THEN Panic
            ELSE Let(parse_u32(input.val),
                     LAMBDA num : IF num.ok /\ CharAt(input.val, 1) # "+"
                                  THEN Return(num.val) ELSE Retry))

\* an integer prompt that unwraps the parse as it unwraps the read
get_u32_input_strict(r) ==
    Let(read_line(r),
        LAMBDA input :
            IF ~input.ok THEN Panic
            ELSE Let(parse_u32(input.val),
                     LAMBDA num : IF num.ok THEN Return(num.val) ELSE Panic))

\* one pass of the loop of get_u32_input on the read result r
get_u32_input(r) ==
    Let(read_line(r),
        LAMBDA input :
            IF ~input.ok THEN Panic
            ELSE Let(parse_u32(input.val),
                     LAMBDA num : IF num.ok THEN Return(num.val) ELSE Retry))

(***************************************************************************)
(* What the console delivered, judged on the line itself (history only).   *)
(***************************************************************************)
HasText(raw) == \E i \in 1..Len(raw) : ~IsWhite(CharAt(raw, i))

\* the text of a line between its first and its last non-blank character
Body(raw) ==
    IF ~HasText(raw) THEN ""
    ELSE LET a == CHOOSE i \in 1..Len(raw) :
                      ~IsWhite(CharAt(raw, i)) /\ \A j \in 1..(i - 1) : IsWhite(CharAt(raw, j))
             b == CHOOSE i \in 1..Len(raw) :
                      ~IsWhite(CharAt(raw, i)) /\ \A j \in (i + 1)..Len(raw) : IsWhite(CharAt(raw, j))
         IN  SubSeq(raw, a, b)

AllDigits(s) == Len(s) > 0 /\ \A i \in 1..Len(s) : IsDigit(CharAt(s, i))

\* a digit string without its leading zeros ("0" for zero)
Canonical(s) ==
    IF \A i \in 1..Len(s) : CharAt(s, i) = "0" THEN "0"
    ELSE LET a == CHOOSE i \in 1..Len(s) :
                      CharAt(s, i) # "0" /\ \A j \in 1..(i - 1) : CharAt(s, j) = "0"
         IN  SubSeq(s, a, Len(s))

MaxDecimal == "4294967295"

\* x <= y for digit strings of the same length
LeqDigits(x, y) ==
    x = y \/ \E i \in 1..Len(x) :
                 /\ SubSeq(x, 1, i - 1) = SubSeq(y, 1, i - 1)
                 /\ DigitVal(CharAt(x, i)) < DigitVal(CharAt(y, i))

\* a digit string whose value a u32 holds
FitsU32(s) ==
    Let(Canonical(s),
        LAMBDA c : \/ Len(c) < Len(MaxDecimal)
                   \/ (Len(c) = Len(MaxDecimal) /\ LeqDigits(c, MaxDecimal)))

\* the digits of a numeral: the numeral without its optional leading "+"
Digits(s) == IF Len(s) > 0 /\ CharAt(s, 1) = "+" THEN SubSeq(s, 2, Len(s)) ELSE s

\* the text is a numeral the integer prompt takes
IsNumeral(s) == Let(Digits(s), LAMBDA d : AllDigits(d) /\ FitsU32(d))

\* the reads that deliver a line with text in it
ValidNameReads == {r \in NameReads : r.kind = "line" /\ HasText(r.raw)}

\* the reads that deliver a numeral
ValidNumberReads ==
    {r \in NumberReads : r.kind = "line" /\ Let(Body(r.raw), LAMBDA text : IsNumeral(text))}

\* the read r delivers what the prompt p asks for
ValidRead(p, r) == r \in (IF p = "name" THEN ValidNameReads ELSE ValidNumberReads)

(***************************************************************************)
(* The program: main().                                                    *)
(***************************************************************************)
Prompts == {"name", "marks", "subjects"}

PromptText(p) ==
    CASE p = "name" -> NamePrompt
      [] p = "marks" -> MarksPrompt
      [] p = "subjects" -> SubjectsPrompt

Diagnostic(p) == IF p = "name" THEN EmptyDiag ELSE InvalidDiag

\* a main that asks for the number of subjects before the total marks
NextStepSwapped(p) ==
    CASE p = "name" -> "subjects"
      [] p = "subjects" -> "marks"
      [] p = "marks" -> "report"

\* the order of main's statements: what follows the prompt p
NextStep(p) ==
    CASE p = "name" -> "marks"
      [] p = "marks" -> "subjects"
      [] p = "subjects" -> "report"

Init ==
    /\ pc = "start"
    /\ out = <<>>
    /\ last = NoRead
    /\ name = None
    /\ total_marks = None
    /\ num_subjects = None
    /\ student = None
    /\ report = None
    /\ exit_status = None
    /\ rejects = 0
    /\ firstValid = [p \in Prompts |-> None]

\* main up to its first blocking read: the welcome line and the name prompt
Start ==
    /\ pc = "start"
    /\ pc' = "name"
    /\ out' = <<Welcome, NamePrompt>>
    /\ UNCHANGED <<last, name, total_marks, num_subjects, student, report,
                   exit_status, rejects, firstValid>>

\* the history of a read r at prompt p
Observe(p, r) ==
    /\ last' = r
    /\ \E valid \in {ValidRead(p, r)} :
          /\ rejects' = IF valid THEN 0 ELSE rejects + 1
          /\ firstValid' = IF valid /\ firstValid[p] = None
                           THEN [firstValid EXCEPT ![p] = Some(r.raw)]
                           ELSE firstValid

\* the console may answer a prompt without valid input MaxAttempts times in a row
Offered(p, r) == ValidRead(p, r) \/ rejects < MaxAttempts

\* a prompt loop that gives up on the second input it cannot use
ContinueCapped(p, o, nxt) ==
    IF o.kind = "return"
    THEN /\ pc' = nxt
         /\ out' = IF nxt \in Prompts THEN Append(out, PromptText(nxt)) ELSE out
         /\ exit_status' = exit_status
    ELSE IF o.kind = "retry" /\ rejects < 1
    THEN /\ pc' = p
         /\ out' = out \o <<Diagnostic(p), PromptText(p)>>
         /\ exit_status' = exit_status
    ELSE /\ pc' = "aborted"
         /\ out' = Append(out, PanicMessage)
         /\ exit_status' = Some(ExitPanic)

\* what the prompt at p does on the outcome o of one pass of its loop, when a
\* returned value goes to the prompt (or step) nxt
Continue(p, o, nxt) ==
    CASE o.kind = "return" ->
            /\ pc' = nxt
            /\ out' = IF nxt \in Prompts THEN Append(out, PromptText(nxt)) ELSE out
            /\ exit_status' = exit_status
      [] o.kind = "retry" ->
            /\ pc' = p
            /\ out' = out \o <<Diagnostic(p), PromptText(p)>>
            /\ exit_status' = exit_status
      [] o.kind = "panic" ->
            /\ pc' = "aborted"
            /\ out' = Append(out, PanicMessage)
            /\ exit_status' = Some(ExitPanic)

\* get_string_input("Enter student's name: ") reads r
ReadName(r) ==
    /\ pc = "name"
    /\ Offered("name", r)
    /\ \E o \in {get_string_input(r)} :
          /\ Continue("name", o, NextStep("name"))
          /\ name' = IF o.kind = "return" THEN Some(o.val) ELSE name
    /\ Observe("name", r)
    /\ UNCHANGED <<total_marks, num_subjects, student, report>>

\* get_u32_input("Enter total marks: ") reads r
ReadMarks(r) ==
    /\ pc = "marks"
    /\ Offered("marks", r)
    /\ \E o \in {get_u32_input(r)} :
          /\ Continue("marks", o, NextStep("marks"))
          /\ total_marks' = IF o.kind = "return" THEN Some(o.val) ELSE total_marks
    /\ Observe("marks", r)
    /\ UNCHANGED <<name, num_subjects, student, report>>

\* get_u32_input("Enter number of subjects: ") reads r
ReadSubjects(r) ==
    /\ pc = "subjects"
    /\ Offered("subjects", r)
    /\ \E o \in {get_u32_input(r)} :
          /\ Continue("subjects", o, NextStep("subjects"))
          /\ num_subjects' = IF o.kind = "return" THEN Some(o.val) ELSE num_subjects
    /\ Observe("subjects", r)
    /\ UNCHANGED <<name, total_marks, student, report>>

\* the rest of main: Student::new, print_report_card, the closing line, exit
PrintReport ==
    /\ pc = "report"
    /\ student' = Some(Student_new(Val(name), Val(total_marks), Val(num_subjects)))
    /\ report' = Some(print_report_card(Val(student')))
    /\ out' = out \o <<ReportBlock, ThankYou>>
    /\ pc' = "done"
    /\ exit_status' = Some(ExitSuccess)
    /\ UNCHANGED <<last, name, total_marks, num_subjects, rejects, firstValid>>

Next ==
    \/ Start
    \/ \E r \in NameReads : ReadName(r)
    \/ \E r \in NumberReads : ReadMarks(r)
    \/ \E r \in NumberReads : ReadSubjects(r)
    \/ PrintReport

Spec == Init /\ [][Next]_vars

(***************************************************************************)
(* The program with the console's good will: a prompt that is waiting      *)
(* eventually receives a valid line, and the program itself keeps running. *)
(***************************************************************************)
ValidNameRead == \E r \in ValidNameReads : ReadName(r)

ValidMarksRead == \E r \in ValidNumberReads : ReadMarks(r)

ValidSubjectsRead == \E r \in ValidNumberReads : ReadSubjects(r)

\* the steps that must come: at most one of them is enabled in any state
Progress ==
    \/ Start
    \/ ValidNameRead
    \/ ValidMarksRead
    \/ ValidSubjectsRead
    \/ PrintReport

LiveSpec == Spec /\ WF_vars(Progress)

(***************************************************************************)
(* The grade computation on its own: main just before line 209, with       *)
(* every pair of numbers the prompts can have returned, within bounds.     *)
(***************************************************************************)
U32Of(n) == <<n \div Limb, n % Limb>>

\* every total up to 100 marks a subject, for every subject count in bounds
SmallCases ==
    {<<U32Of(t), U32Of(s)>> : t \in 0..(100 * MaxSubjects), s \in 0..MaxSubjects}

\* pairs at the far end of the u32 range, on and next to the band boundaries
BigCases ==
    {<<parse_u32(c[1]).val, parse_u32(c[2]).val>> : c \in
        {<<"4294967219", "47721858">>, <<"4294967220", "47721858">>,
         <<"4294967249", "57266230">>, <<"4294967250", "57266230">>,
         <<"4294967279", "71582788">>, <<"4294967280", "71582788">>,
         <<"4294967295", "1">>, <<"4294967295", "4294967295">>,
         <<"1", "4294967295">>, <<"4294967295", "0">>,
         <<"4294967295", "47721859">>, <<"4294967294", "4294967295">>}}

GradeInit ==
    \E c \in SmallCases \cup BigCases :
        /\ pc = "report"
        /\ out = <<Welcome, NamePrompt, MarksPrompt, SubjectsPrompt>>
        /\ last = Line(U32ToString(c[2]) \o "\n")
        /\ name = Some("Ada")
        /\ total_marks = Some(c[1])
        /\ num_subjects = Some(c[2])
        /\ student = None
        /\ report = None
        /\ exit_status = None
        /\ rejects = 0
        /\ firstValid = [p \in Prompts |->
                            CASE p = "name" -> Some("Ada\n")
                              [] p = "marks" -> Some(U32ToString(c[1]) \o "\n")
                              [] p = "subjects" -> Some(U32ToString(c[2]) \o "\n")]

GradeNext == PrintReport

GradeSpec == GradeInit /\ [][GradeNext]_vars

(***************************************************************************)
(* Properties.                                                             *)
(***************************************************************************)
\* the band of t / s by integer arithmetic: t against 90 s, 75 s and 60 s
BandOf(t, s) ==
    IF Geq(t, MulAdd(s, 90, 0)) THEN "A"
    ELSE IF Geq(t, MulAdd(s, 75, 0)) THEN "B"
    ELSE IF Geq(t, MulAdd(s, 60, 0)) THEN "C"
    ELSE "D"

\* C1: with num_subjects s > 0, assign_grade gives A iff t >= 90 s, B iff
\* 75 s <= t < 90 s, C iff 60 s <= t < 75 s, D iff t < 60 s, and never Invalid.
C1_GradeBands ==
    (pc = "done" /\ Val(student).num_subjects # U32Zero) =>
        /\ assign_grade(Val(student)) = BandOf(Val(student).total_marks, Val(student).num_subjects)
        /\ assign_grade(Val(student)) \in Grades \ {"Invalid"}
        /\ Val(report).grade = assign_grade(Val(student))

\* a report was printed for an average just below 90 at the far end of the range
C1_Witness ==
    /\ pc = "done"
    /\ Val(student).total_marks = parse_u32("4294967219").val
    /\ Val(student).num_subjects = parse_u32("47721858").val
    /\ Val(report).grade = "B"

\* C2: with num_subjects = 0 the average is 0.0 and the grade is Invalid, shown
\* as "N/A", whatever total_marks is.
C2_ZeroSubjects ==
    (pc = "done" /\ Val(student).num_subjects = U32Zero) =>
        /\ calculate_average(Val(student)) = FZero
        /\ assign_grade(Val(student)) = "Invalid"
        /\ Val(report).average = "0.00"
        /\ Val(report).grade = "N/A"

\* a report was printed for no subjects and the largest total
C2_Witness ==
    /\ pc = "done"
    /\ Val(student).num_subjects = U32Zero
    /\ Val(student).total_marks = U32Max
    /\ Val(report).grade = "N/A"

\* the integer prompt at p returned v on this step
U32Returned(p, v) ==
    /\ pc' = NextStep(p)
    /\ v # None
    /\ ~(InvalidDiag \in {out'[i] : i \in (Len(out) + 1)..Len(out')})

\* the prompt at p rejected the input on this step: one diagnostic, the prompt
\* again, nothing returned
Rejected(p) ==
    /\ pc' = p
    /\ out' = out \o <<Diagnostic(p), PromptText(p)>>
    /\ exit_status' = None
    /\ UNCHANGED <<name, total_marks, num_subjects>>

\* C3 as stated: the integer prompt returns exactly on a trimmed line of digits
\* alone whose value is at most 4294967295, and returns that value; any other
\* line (any line with a sign character among them) is rejected.
C3_DigitsOnly ==
    [][ \A p \in {"marks", "subjects"} :
          (pc = p /\ last'.kind = "line") =>
              LET text == Body(last'.raw)
                  v    == IF p = "marks" THEN total_marks' ELSE num_subjects'
              IN  IF AllDigits(text) /\ FitsU32(text)
                  THEN U32Returned(p, v) /\ U32ToString(Val(v)) = Canonical(text)
                  ELSE Rejected(p) ]_vars

\* C3 amended: the integer prompt returns exactly on a trimmed line of digits,
\* after at most one leading "+", whose value is at most 4294967295, and returns
\* that value; any other line is rejected.
C3_Numerals ==
    [][ \A p \in {"marks", "subjects"} :
          (pc = p /\ last'.kind = "line") =>
              LET text == Body(last'.raw)
                  v    == IF p = "marks" THEN total_marks' ELSE num_subjects'
              IN  IF IsNumeral(text)
                  THEN U32Returned(p, v) /\ U32ToString(Val(v)) = Canonical(Digits(text))
                  ELSE Rejected(p) ]_vars

\* the total-marks prompt took "+5" as 5 after rejecting two lines
C3_Witness ==
    /\ pc = "subjects"
    /\ last = Line("+5\n")
    /\ total_marks = Some(<<0, 5>>)
    /\ Len(SelectSeq(out, LAMBDA e : e = InvalidDiag)) = 2

\* C4: the string prompt returns the first line whose trimmed text is not
\* empty, trimmed; a blank line before it gives one diagnostic and the prompt
\* again, and is not returned.
C4_FirstNonEmptyLine ==
    /\ [](name # None => Val(name) = Body(Val(firstValid["name"])))
    /\ [][ (pc = "name" /\ last'.kind = "line") =>
              IF HasText(last'.raw)
              THEN /\ pc' = NextStep("name")
                   /\ name' = Some(Body(last'.raw))
                   /\ ~(EmptyDiag \in {out'[i] : i \in (Len(out) + 1)..Len(out')})
              ELSE Rejected("name") /\ name' = None ]_vars

\* the name prompt returned "Bo Li" after two blank lines
C4_Witness ==
    /\ pc = "marks"
    /\ name = Some("Bo Li")
    /\ last = Line("  Bo Li \t\n")
    /\ out = <<Welcome, NamePrompt, EmptyDiag, NamePrompt, EmptyDiag, NamePrompt, MarksPrompt>>

C6_EofAtIntegerPromptFatal ==
    [][ \A p \in {"marks", "subjects"} :
          (pc = p /\ last'.kind = "eof") =>
              /\ pc' = "aborted"
              /\ exit_status' = Some(ExitPanic)
              /\ ~(InvalidDiag \in {out'[i] : i \in (Len(out) + 1)..Len(out')}) ]_vars

\* the place of an output event in the order of a run (the invalid-input
\* diagnostic and the panic message belong to whichever integer prompt is on)
Rank(e) ==
    CASE e = Welcome -> 0
      [] e = NamePrompt -> 1
      [] e = EmptyDiag -> 1
      [] e = MarksPrompt -> 2
      [] e = SubjectsPrompt -> 3
      [] e = ReportBlock -> 4
      [] e = ThankYou -> 5
      [] OTHER -> -1

Count(e) == Len(SelectSeq(out, LAMBDA x : x = e))

\* C7: the output is the welcome line, name prompts, total-marks prompts,
\* subject prompts, the report, the closing line, in that order; a prompt is
\* shown only once the field before it is obtained and never again once its
\* own is; the report is printed at most once, after all three fields.
C7_OutputOrder ==
    /\ out # <<>> => out[1] = Welcome /\ out[2] = NamePrompt
    /\ Count(Welcome) <= 1
    /\ Count(ReportBlock) <= 1
    /\ Count(ThankYou) <= 1
    /\ \A i, j \in 1..Len(out) :
          (i < j /\ Rank(out[i]) >= 0 /\ Rank(out[j]) >= 0) => Rank(out[i]) <= Rank(out[j])
    /\ \A i \in 1..Len(out) :
          out[i] = InvalidDiag =>
              /\ i > 1 /\ i < Len(out)
              /\ out[i - 1] \in {MarksPrompt, SubjectsPrompt}
              /\ out[i + 1] = out[i - 1]
    /\ (Count(MarksPrompt) > 0) = (name # None)
    /\ (Count(SubjectsPrompt) > 0) = (total_marks # None)
    /\ Count(ReportBlock) > 0 =>
          /\ name # None /\ total_marks # None /\ num_subjects # None
          /\ report # None
          /\ out[Len(out) - 1] = ReportBlock /\ out[Len(out)] = ThankYou
    /\ Count(ThankYou) = Count(ReportBlock)
    /\ num_subjects # None => pc \in {"report", "done"}
    /\ pc \in Prompts => out[Len(out)] = PromptText(pc)

\* a finished run that was turned back at every prompt
C7_Witness ==
    /\ pc = "done"
    /\ Count(EmptyDiag) = MaxAttempts
    /\ Count(InvalidDiag) = 2 * MaxAttempts
    /\ Count(ReportBlock) = 1

\* C8: after n inputs in a row that a prompt cannot use, for any n, the program
\* has not terminated and has not moved on: it has printed n diagnostics, each
\* followed by the same prompt, and waits at that prompt.
C8_RetryForever ==
    (rejects > 0 /\ last.kind # "err") =>
        /\ pc \in Prompts
        /\ exit_status = None
        /\ (CASE pc = "name" -> name
              [] pc = "marks" -> total_marks
              [] pc = "subjects" -> num_subjects) = None
        /\ Len(out) > 2 * rejects
        /\ \A k \in 0..(rejects - 1) :
              /\ out[Len(out) - 2 * k] = PromptText(pc)
              /\ out[Len(out) - 2 * k - 1] = Diagnostic(pc)
        /\ out[Len(out) - 2 * rejects] = PromptText(pc)

\* the last prompt is still waiting after as many bad lines as the model allows
C8_Witness ==
    /\ pc = "subjects"
    /\ rejects = MaxAttempts
    /\ last = Line("4294967296\n")

Hundredths(d) ==
    LET n == Len(d)
        h == parse_u32(SubSeq(d, 1, n - 3) \o SubSeq(d, n - 1, n)).val
    IN  h[1] * Limb + h[2]

Small(x) == x[1] < 2^6

IntOf(x) == x[1] * Limb + x[2]

Abs(n) == IF n < 0 THEN -n ELSE n

\* C10: the report shows the first valid value accepted at each prompt and
\* nothing of the rejected lines; the Student is not modified once built; the
\* average and the grade both come from that same pair, whatever the pair.
C10_ReportReflectsInputs ==
    /\ [](pc = "done" =>
            /\ Val(student).name = Val(report).name
            /\ U32ToString(Val(student).total_marks) = Val(report).total
            /\ U32ToString(Val(student).num_subjects) = Val(report).subjects
            /\ Val(report).name = Body(Val(firstValid["name"]))
            /\ Val(report).total = Canonical(Digits(Body(Val(firstValid["marks"]))))
            /\ Val(report).subjects = Canonical(Digits(Body(Val(firstValid["subjects"]))))
            /\ Val(report).grade = IF Val(report).subjects = "0" THEN "N/A"
                              ELSE BandOf(Val(student).total_marks, Val(student).num_subjects)
            /\ Val(report).subjects = "0" => Val(report).average = "0.00"
            /\ (Val(report).subjects # "0" /\ Small(Val(student).total_marks) /\ Small(Val(student).num_subjects)) =>
                  2 * Abs(Hundredths(Val(report).average) * IntOf(Val(student).num_subjects)
                          - 100 * IntOf(Val(student).total_marks))
                      <= IntOf(Val(student).num_subjects)
            /\ (Val(report).total = "270" /\ Val(report).subjects = "3") =>
                  Val(report).average = "90.00" /\ Val(report).grade = "A"
            /\ (Val(report).total = "179" /\ Val(report).subjects = "3") =>
                  Val(report).average = "59.67" /\ Val(report).grade = "D"
            /\ (Val(report).total = "0" /\ Val(report).subjects = "0") =>
                  Val(report).average = "0.00" /\ Val(report).grade = "N/A")
    /\ [][student # None => student' = student /\ report' = report]_vars

\* the report of 179 marks in 3 subjects, accepted after rejected lines
C10_Witness ==
    /\ pc = "done"
    /\ Val(report).name = "Ada"
    /\ Val(report).total = "179"
    /\ Val(report).subjects = "3"
    /\ Val(report).average = "59.67"
    /\ Val(report).grade = "D"
    /\ Count(InvalidDiag) = 2 * MaxAttempts
    /\ Count(EmptyDiag) = MaxAttempts

====
